---- MODULE Spec2Model ----
(***************************************************************************)
(* A model of go-bc5 (src/bc5.go): the BC5 red/green block codec, the      *)
(* image tiler around it and the 12-byte header container.                 *)
(*                                                                         *)
(* Go's float64 arithmetic is modelled bit for bit: a float is a sign, an  *)
(* integer significand of at most 53 bits and a binary exponent, and every *)
(* operation rounds its exact result to nearest, ties to even (IEEE 754    *)
(* binary64; no value of this program leaves the normal range).  The       *)
(* significands exceed TLC's integers, so they are kept as little-endian   *)
(* sequences of 15-bit limbs.                                              *)
(***************************************************************************)
EXTENDS Integers, Sequences, FiniteSets, TLC

----------------------------------------------------------------------------
(* Natural numbers of arbitrary size: little-endian limbs, no leading zero *)

LimbBits == 15
LimbBase == 2^LimbBits

Max(a, b) == IF a >= b THEN a ELSE b
Min(a, b) == IF a <= b THEN a ELSE b

RECURSIVE BnTrim(_)
BnTrim(a) ==
    IF a = <<>> THEN a
    ELSE IF a[Len(a)] = 0 THEN BnTrim(SubSeq(a, 1, Len(a) - 1)) ELSE a

RECURSIVE BnFromInt(_)
BnFromInt(n) ==
    IF n = 0 THEN <<>> ELSE <<n % LimbBase>> \o BnFromInt(n \div LimbBase)

\* the value of a number known to fit TLC's integers
RECURSIVE BnToInt(_)
BnToInt(a) ==
    IF a = <<>> THEN 0 ELSE Head(a) + LimbBase * BnToInt(Tail(a))

BnLimb(a, i) == IF i <= Len(a) THEN a[i] ELSE 0

RECURSIVE BnAddFrom(_, _, _, _)
BnAddFrom(a, b, i, c) ==
    IF i > Len(a) /\ i > Len(b)
    THEN IF c = 0 THEN <<>> ELSE <<c>>
    ELSE LET s == BnLimb(a, i) + BnLimb(b, i) + c
         IN  <<s % LimbBase>> \o BnAddFrom(a, b, i + 1, s \div LimbBase)

BnAdd(a, b) == BnAddFrom(a, b, 1, 0)

\* a - b for a >= b
RECURSIVE BnSubFrom(_, _, _, _)
BnSubFrom(a, b, i, c) ==
    IF i > Len(a) THEN <<>>
    ELSE LET s == BnLimb(a, i) - BnLimb(b, i) - c
         IN  IF s < 0 THEN <<s + LimbBase>> \o BnSubFrom(a, b, i + 1, 1)
                      ELSE <<s>> \o BnSubFrom(a, b, i + 1, 0)

BnSub(a, b) == BnTrim(BnSubFrom(a, b, 1, 0))

\* -1, 0, 1 as a < b, a = b, a > b
RECURSIVE BnCmpFrom(_, _, _)
BnCmpFrom(a, b, i) ==
    IF i = 0 THEN 0
    ELSE IF a[i] < b[i] THEN -1
    ELSE IF a[i] > b[i] THEN 1
    ELSE BnCmpFrom(a, b, i - 1)

BnCmp(a, b) ==
    IF Len(a) < Len(b) THEN -1
    ELSE IF Len(a) > Len(b) THEN 1
    ELSE BnCmpFrom(a, b, Len(a))

\* a * k for 0 <= k <= LimbBase
RECURSIVE BnMulSmallFrom(_, _, _, _)
BnMulSmallFrom(a, k, i, c) ==
    IF i > Len(a) THEN (IF c = 0 THEN <<>> ELSE BnFromInt(c))
    ELSE LET s == a[i] * k + c
         IN  <<s % LimbBase>> \o BnMulSmallFrom(a, k, i + 1, s \div LimbBase)

BnMulSmall(a, k) == IF k = 0 THEN <<>> ELSE BnMulSmallFrom(a, k, 1, 0)

BnZeros(n) == [i \in 1..n |-> 0]

RECURSIVE BnMulFrom(_, _, _)
BnMulFrom(a, b, i) ==
    IF i > Len(b) THEN <<>>
    ELSE BnAdd(BnZeros(i - 1) \o BnMulSmall(a, b[i]), BnMulFrom(a, b, i + 1))

BnMul(a, b) == BnTrim(BnMulFrom(a, b, 1))

\* <<a \div d, a % d>> for 0 < d <= LimbBase; the quotient from the top limb down
RECURSIVE BnDivSmallFrom(_, _, _, _)
BnDivSmallFrom(a, d, i, r) ==
    IF i = 0 THEN <<<<>>, r>>
    ELSE LET cur  == r * LimbBase + a[i]
             rest == BnDivSmallFrom(a, d, i - 1, cur % d)
         IN  <<rest[1] \o <<cur \div d>>, rest[2]>>

BnDivSmall(a, d) ==
    LET qr == BnDivSmallFrom(a, d, Len(a), 0) IN <<BnTrim(qr[1]), qr[2]>>

BnShl(a, n) ==
    IF a = <<>> THEN a
    ELSE BnZeros(n \div LimbBits) \o BnMulSmall(a, 2^(n % LimbBits))

BnShr(a, n) ==
    IF Len(a) <= n \div LimbBits THEN <<>>
    ELSE BnDivSmall(SubSeq(a, (n \div LimbBits) + 1, Len(a)), 2^(n % LimbBits))[1]

\* a % 2^n
BnLowBits(a, n) ==
    LET full == n \div LimbBits
    IN  IF Len(a) <= full THEN a
        ELSE BnTrim(SubSeq(a, 1, full) \o <<a[full + 1] % 2^(n % LimbBits)>>)

RECURSIVE IntBitLen(_)
IntBitLen(n) == IF n = 0 THEN 0 ELSE 1 + IntBitLen(n \div 2)

BnBitLen(a) ==
    IF a = <<>> THEN 0 ELSE LimbBits * (Len(a) - 1) + IntBitLen(a[Len(a)])

BnIsOdd(a) == a # <<>> /\ a[1] % 2 = 1

\* the integer square root of an integer n < 2^30, bit by bit from bit k down
RECURSIVE IntSqrtFrom(_, _, _)
IntSqrtFrom(n, r, k) ==
    IF k < 0 THEN r
    ELSE IF (r + 2^k) * (r + 2^k) <= n THEN IntSqrtFrom(n, r + 2^k, k - 1)
    ELSE IntSqrtFrom(n, r, k - 1)

IntSqrt(n) == IntSqrtFrom(n, 0, LimbBits - 1)

\* The long-hand square root, one limb of the root for two limbs of n.  With
\* root r so far and R what is left, the next limb is the largest d with
\* (2*r*LimbBase + d) * d <= R.  BnSqrtDigit tries d downwards from an
\* estimate that is not below it.
RECURSIVE BnSqrtDigit(_, _, _)
BnSqrtDigit(r, R, d) ==
    LET t == BnMulSmall(<<d>> \o BnMulSmall(r, 2), d)
    IN  IF d = 0 THEN <<0, R>>
        ELSE IF BnCmp(BnTrim(t), R) <= 0 THEN <<d, BnSub(R, BnTrim(t))>>
        ELSE BnSqrtDigit(r, R, d - 1)

\* An upper estimate of the next limb: R \div (2 * r * LimbBase) is at most
\* the quotient of the leading limbs of R by twice the leading limb of r,
\* plus one.  The leading limb of r is LimbBase/2 or more, which keeps the
\* estimate within a few units of the limb and the quotient within TLC's
\* integers.
BnSqrtEstimate(r, R) ==
    LET top == IF Len(R) <= Len(r) THEN 0
               ELSE BnToInt(SubSeq(R, Len(r) + 1, Len(R)))
    IN  Min(LimbBase - 1, (top \div (2 * r[Len(r)])) + 1)

\* st = <<the limbs of n not yet used, the root so far, what is left>>
BnSqrtNext(n, r, dr) == <<SubSeq(n, 1, Len(n) - 2), <<dr[1]>> \o r, dr[2]>>

BnSqrtFrom(n, r, R) == BnSqrtNext(n, r, BnSqrtDigit(r, R, BnSqrtEstimate(r, R)))

BnSqrtStep(st) ==
    BnSqrtFrom(st[1], st[2], BnTrim(SubSeq(st[1], Len(st[1]) - 1, Len(st[1])) \o st[3]))

RECURSIVE BnSqrtLoop(_)
BnSqrtLoop(st) ==
    IF st[1] = <<>> THEN <<st[2], st[3] = <<>> >> ELSE BnSqrtLoop(BnSqrtStep(st))

\* <<the integer square root of n, whether it is exact>>, for n of an even
\* number of limbs whose leading two limbs are LimbBase^2 / 4 or more
BnSqrt(n) ==
    LET top == n[Len(n)] * LimbBase + n[Len(n) - 1]
        r1  == IntSqrt(top)
    IN  BnSqrtLoop(<<SubSeq(n, 1, Len(n) - 2), <<r1>>, BnFromInt(top - r1 * r1)>>)

----------------------------------------------------------------------------
(* float64: [neg, m, e] is (-1)^neg * m * 2^e, m odd (or m zero, e = 0)     *)

FZero == [neg |-> FALSE, m |-> <<>>, e |-> 0]

RECURSIVE IntTrailingZeros(_)
IntTrailingZeros(n) == IF n % 2 = 1 THEN 0 ELSE 1 + IntTrailingZeros(n \div 2)

RECURSIVE FCanon(_, _, _)
FCanon(neg, m, e) ==
    IF m = <<>> THEN FZero
    ELSE IF m[1] = 0 THEN FCanon(neg, Tail(m), e + LimbBits)
    ELSE LET t == IntTrailingZeros(m[1])
         IN  [neg |-> neg, m |-> BnShr(m, t), e |-> e + t]

MantissaBits == 53

\* The float nearest to (-1)^neg * (m + f) * 2^e, ties to even, where 0 <= f < 1
\* and sticky says f > 0; a caller with sticky set passes m of 55 bits or more.
\* q rounded up or not: c compares the bits dropped from q with one half
FRoundUp(q, c, sticky) ==
    IF c > 0 \/ (c = 0 /\ (sticky \/ BnIsOdd(q))) THEN BnAdd(q, <<1>>) ELSE q

\* s is the number of bits that m has too many
FRoundAt(neg, m, e, sticky, s) ==
    FCanon(neg,
           IF s <= 0 THEN m
           ELSE FRoundUp(BnShr(m, s), BnCmp(BnLowBits(m, s), BnShl(<<1>>, s - 1)), sticky),
           IF s <= 0 THEN e ELSE e + s)

FRound(neg, m, e, sticky) == FRoundAt(neg, m, e, sticky, BnBitLen(m) - MantissaBits)

\* float64(n) for an integer n of fewer than 53 bits
FFromInt(n) == FCanon(n < 0, BnFromInt(IF n < 0 THEN -n ELSE n), 0)

FNeg(x) == IF x.m = <<>> THEN x ELSE [x EXCEPT !.neg = ~x.neg]
FAbs(x) == [x EXCEPT !.neg = FALSE]

\* the sum of (-1)^xneg * mx * 2^e0 and (-1)^yneg * my * 2^e0; opposite
\* numbers add up to +0
FAddAligned(xneg, mx, yneg, my, e0) ==
    FRound(IF xneg = yneg \/ BnCmp(mx, my) > 0 THEN xneg ELSE yneg,
           IF xneg = yneg THEN BnAdd(mx, my)
           ELSE IF BnCmp(mx, my) > 0 THEN BnSub(mx, my) ELSE BnSub(my, mx),
           e0, FALSE)

FAdd(x, y) ==
    FAddAligned(x.neg, BnShl(x.m, x.e - Min(x.e, y.e)),
                y.neg, BnShl(y.m, y.e - Min(x.e, y.e)), Min(x.e, y.e))

FSub(x, y) == FAdd(x, FNeg(y))

\* the product x * y, rounded or (as a fused multiply-add takes it) exact
FMulTo(x, y, exact) ==
    FRoundAt(x.neg # y.neg, BnMul(x.m, y.m), x.e + y.e, FALSE,
             IF exact THEN 0 ELSE BnBitLen(BnMul(x.m, y.m)) - MantissaBits)

FMul(x, y) == FMulTo(x, y, FALSE)

\* x < y
FLess(x, y) ==
    IF x.neg # y.neg THEN x.neg
    ELSE IF x.m = <<>> \/ y.m = <<>> THEN (IF x.neg THEN x.m # <<>> ELSE y.m # <<>>) /\ x.m # y.m
    ELSE IF BnBitLen(x.m) + x.e # BnBitLen(y.m) + y.e
         THEN x.neg = (BnBitLen(x.m) + x.e > BnBitLen(y.m) + y.e)
    ELSE BnCmp(BnShl(x.m, x.e - Min(x.e, y.e)), BnShl(y.m, y.e - Min(x.e, y.e)))
         = (IF x.neg THEN 1 ELSE -1)

GuardBits == 64

\* x / d for an integer 0 < d <= 255: the quotient to 56 bits or more and
\* whether a remainder is left
FDivRound(neg, qr, e) == FRound(neg, qr[1], e, qr[2] # 0)

FDivInt(x, d) == FDivRound(x.neg, BnDivSmall(BnShl(x.m, GuardBits), d), x.e - GuardBits)

SqrtLimbs == 8

\* math.Sqrt(x) for x >= 0: the square root of m * 2^k, with k making the
\* exponent even and m * 2^k fill SqrtLimbs limbs up to its last or its last
\* but one bit, so that the root has 60 bits
FSqrtShift(x) ==
    LET k0 == SqrtLimbs * LimbBits - BnBitLen(x.m) IN k0 - ((x.e - k0) % 2)

FSqrtRound(sr, e) == FRound(FALSE, sr[1], e, ~sr[2])

FSqrt(x) ==
    IF x.m = <<>> THEN FZero
    ELSE FSqrtRound(BnSqrt(BnShl(x.m, FSqrtShift(x))), (x.e - FSqrtShift(x)) \div 2)

\* the integer part of x >= 0 (Go's conversion truncates towards zero), which
\* fits TLC's integers for every value of this program (at most 1.21 * 255)
FTrunc(x) ==
    IF x.e >= 0 THEN BnToInt(BnShl(x.m, x.e)) ELSE BnToInt(BnShr(x.m, -x.e))

----------------------------------------------------------------------------
(* Bytes, pixels and images                                                *)

Byte == 0..255

\* BlueMode (an int): the four named constants
Zero          == "Zero"
One           == "One"
ComputeNormal == "ComputeNormal"
Greyscale     == "Greyscale"
BlueMode      == {Zero, One, ComputeNormal, Greyscale}

\* color.RGBA
RGBA(r, g, b, a) == [R |-> r, G |-> g, B |-> b, A |-> a]
ZeroRGBA == RGBA(0, 0, 0, 0)

\* image.Point and image.Rectangle; Rect(x0, y0, x1, y1) is image.Rect for
\* x0 <= x1 and y0 <= y1, and ZR the zero Rectangle
Pt(x, y) == [X |-> x, Y |-> y]
Rect(x0, y0, x1, y1) == [Min |-> Pt(x0, y0), Max |-> Pt(x1, y1)]
ZR == Rect(0, 0, 0, 0)

\* Rectangle.Size, Rectangle.Empty and Rectangle.Intersect
RectSize(r) == Pt(r.Max.X - r.Min.X, r.Max.Y - r.Min.Y)
RectEmpty(r) == r.Min.X >= r.Max.X \/ r.Min.Y >= r.Max.Y
Intersect(r, s) ==
    LET t == Rect(Max(r.Min.X, s.Min.X), Max(r.Min.Y, s.Min.Y),
                  Min(r.Max.X, s.Max.X), Min(r.Max.Y, s.Max.Y))
    IN  IF RectEmpty(t) THEN ZR ELSE t

\* An *image.RGBA: its Rect and its pixels row by row from Rect.Min, as Pix
\* holds them
Image(r, pix) == [Rect |-> r, pix |-> pix]

\* (*image.RGBA).RGBAAt: the zero colour outside the rectangle
RGBAAt(img, x, y) ==
    IF x < img.Rect.Min.X \/ x >= img.Rect.Max.X
       \/ y < img.Rect.Min.Y \/ y >= img.Rect.Max.Y
    THEN ZeroRGBA
    ELSE img.pix[(y - img.Rect.Min.Y) * (img.Rect.Max.X - img.Rect.Min.X)
                 + (x - img.Rect.Min.X) + 1]

\* byte(f) for the integer part t of the float f.  The gc compiler converts
\* the float to an int32 and keeps its low 8 bits on every target, so an
\* integer part outside 0..255 (the blue of ComputeNormal reaches 307) wraps.
ToByte(t) == t % 256

----------------------------------------------------------------------------
(* The palette                                                             *)

\* returns v as a float normalized between 0 and 1
normalize(v) == FDivInt(FFromInt(v), 255)

\* the integer part of v * 255, which denormalize converts to a byte
denormInt(v) == FTrunc(FMul(v, FFromInt(255)))

\* returns a byte representation of the normalized float v
denormalize(v) == ToByte(denormInt(v))

\* Go lets a compiler fuse x*y + z into one operation that rounds once, and
\* the gc compiler does so on some targets (arm64) and not on others (amd64).
\* fma names what the build does with a sum of two products: "none" rounds
\* both products, "left" and "right" take that product unrounded.
FusedMulAdd == {"none", "left", "right"}

\* (a*c0 + b*c1) / d
Lerp(a, c0, b, c1, d, fma) ==
    FDivInt(FAdd(FMulTo(FFromInt(a), c0, fma = "left"),
                 FMulTo(FFromInt(b), c1, fma = "right")), d)

\* generates the block palette from the reference colors; pal[i] of the code
\* is generatePalette(c0, c1, fma)[i + 1]
generatePalette(c0, c1, fma) ==
    LET pal(n) == << c0, c1 >>
                  \o [i \in 1..(n - 1) |-> Lerp(n - i, c0, i, c1, n, fma)]
                  \o (IF n = 5 THEN << FFromInt(0), FFromInt(1) >> ELSE << >>)
    IN  pal(IF FLess(c1, c0) THEN 7 ELSE 5)

\* compressBlock's closure nearest: the first index of a palette entry closest
\* to normalize(v); i counts 0..7 and ni is the best so far
RECURSIVE nearestFrom(_, _, _, _)
nearestFrom(pal, nv, i, ni) ==
    IF i = 8 THEN ni
    ELSE IF FLess(FAbs(FSub(pal[i + 1], nv)), FAbs(FSub(pal[ni + 1], nv)))
         THEN nearestFrom(pal, nv, i + 1, i)
         ELSE nearestFrom(pal, nv, i + 1, ni)

nearest(pal, v) == nearestFrom(pal, normalize(v), 0, 0)

----------------------------------------------------------------------------
(* The palettes of the bytes that the inputs hold                          *)

\* the channel values of the pixels and the reference bytes of hand-made
\* blocks: the ends of the range and the values of the solid-colour example
Levels == {0, 100, 200, 255}

\* A function as a table: TLC keeps a function written [x \in S |-> e] as its
\* expression and evaluates e again at every application; combined with the
\* empty function it is evaluated once for each x.
Table(f) == f @@ << >>

\* A palette with what the codec takes from it: generatePalette(normalize(c0),
\* normalize(c1)) as pal, denormInt of its entries as den and nearest of the
\* bytes in Levels as near.  They are evaluated once, for the reference bytes
\* in Levels, and kept in paletteTable; the codec below looks them up.
paletteRow(pal) ==
    [pal  |-> pal,
     den  |-> Table([i \in 1..8 |-> denormInt(pal[i])]),
     near |-> Table([v \in Levels |-> nearest(pal, v)])]

paletteTable ==
    Table([t \in Levels \X Levels \X FusedMulAdd |->
              paletteRow(generatePalette(normalize(t[1]), normalize(t[2]), t[3]))])

paletteOf(c0, c1, fma) == paletteTable[<<c0, c1, fma>>]

----------------------------------------------------------------------------
(* 64-bit words and the packed indices                                     *)

\* A uint64 as its 8 bytes, most significant first: what
\* binary.BigEndian.PutUint64 writes and binary.BigEndian.Uint64 reads.
U64Zero == <<0, 0, 0, 0, 0, 0, 0, 0>>

\* (u << 3) | uint64(ix) for a 3-bit ix: the top three bits are shifted out
ShiftLeft3Or(u, ix) ==
    << ((u[1] * 8) % 256) + (u[2] \div 32), ((u[2] * 8) % 256) + (u[3] \div 32),
       ((u[3] * 8) % 256) + (u[4] \div 32), ((u[4] * 8) % 256) + (u[5] \div 32),
       ((u[5] * 8) % 256) + (u[6] \div 32), ((u[6] * 8) % 256) + (u[7] \div 32),
       ((u[7] * 8) % 256) + (u[8] \div 32), ((u[8] * 8) % 256) + ix >>

\* bit n of u, bit 0 the least significant; a shift brings in zeros
U64Bit(u, n) == IF n >= 64 THEN 0 ELSE (u[8 - (n \div 8)] \div 2^(n % 8)) % 2

\* int((u >> n) & 7)
ShiftRightAnd7(u, n) == U64Bit(u, n) + 2 * U64Bit(u, n + 1) + 4 * U64Bit(u, n + 2)

\* a panic of the Go runtime, in place of the value a call would return
Panic == "panic"

\* returns an array of 16 indices parsed from b, separating out the 3-bit
\* index values; ix[i] of the code is getIndices(b)[i + 1]
getIndices(b) ==
    IF Len(b) # 6 THEN Panic
    ELSE LET data == <<0, 0>> \o b
         IN  [i \in 1..16 |-> ShiftRightAnd7(data, (i - 1) * 3)]

----------------------------------------------------------------------------
(* The block codec                                                         *)

\* compressBlock's first loop: the minima and maxima after pixels 0..k-1 in
\* scan order (y outer, x inner)
RECURSIVE minMaxFrom(_, _, _)
minMaxFrom(block, k, mm) ==
    IF k = 16 THEN mm
    ELSE LET c == RGBAAt(block, k % 4, k \div 4)
         IN  minMaxFrom(block, k + 1,
                 [minR |-> IF c.R < mm.minR THEN c.R ELSE mm.minR,
                  maxR |-> IF c.R > mm.maxR THEN c.R ELSE mm.maxR,
                  minG |-> IF c.G < mm.minG THEN c.G ELSE mm.minG,
                  maxG |-> IF c.G > mm.maxG THEN c.G ELSE mm.maxG])

\* Mutant of minMax: the minima and the maxima exchanged
minMaxSwapped(block) ==
    LET swap(mm) == [minR |-> mm.maxR, maxR |-> mm.minR, minG |-> mm.maxG, maxG |-> mm.minG]
    IN  swap(minMaxFrom(block, 0, [minR |-> 255, maxR |-> 0, minG |-> 255, maxG |-> 0]))

minMax(block) ==
    minMaxFrom(block, 0, [minR |-> 255, maxR |-> 0, minG |-> 255, maxG |-> 0])

\* compressBlock's second loop, the shifts: the word after the indices
\* ix[1..k], taken in scan order
RECURSIVE packIndicesFrom(_, _)
packIndicesFrom(ix, k) ==
    IF k = 0 THEN U64Zero ELSE ShiftLeft3Or(packIndicesFrom(ix, k - 1), ix[k])

\* rIxBytes[2:8] (and gIxBytes[2:8]): the word of the 16 indices, written big
\* endian, without its first two bytes
packIndices(ix) == SubSeq(packIndicesFrom(ix, 16), 3, 8)

\* returns 16 byte BC5 compressed block bytes for the given 4x4 RGBA image
compressBlock(block, fma) ==
    LET mm   == minMax(block)
        c(k) == RGBAAt(block, (k - 1) % 4, (k - 1) \div 4)
        blockBytes(palR, palG) ==
            << ToByte(palR.den[1]), ToByte(palR.den[2]) >>
            \o packIndices([k \in 1..16 |-> palR.near[c(k).R]])
            \o << ToByte(palG.den[1]), ToByte(palG.den[2]) >>
            \o packIndices([k \in 1..16 |-> palG.near[c(k).G]])
    IN  blockBytes(paletteOf(mm.minR, mm.maxR, fma), paletteOf(mm.minG, mm.maxG, fma))

\* math.Pow(x, 2): x*x rounded
Pow2(x) == FMul(x, x)

\* the ComputeNormal case of decompressBlock, of the palette values r and g:
\* denormalize((math.Sqrt(1-math.Pow(2*r-1, 2)+math.Pow(2*g-1, 2)))/2 + 0.5);
\* 2*r and the halving are exact, fused or not
computeNormal(r, g) ==
    LET one == FFromInt(1)
        x   == FSub(FMul(FFromInt(2), r), one)
        y   == FSub(FMul(FFromInt(2), g), one)
        sum == FAdd(FSub(one, Pow2(x)), Pow2(y))
    IN  denormalize(FAdd(FDivInt(FSqrt(sum), 2), FDivInt(one, 2)))

\* returns an RGBA image containing the decompressed contents of block
decompressBlock(block, blueMode, fma) ==
    IF Len(block) # 16 THEN Panic
    ELSE
    LET rIndices == getIndices(SubSeq(block, 3, 8))
        gIndices == getIndices(SubSeq(block, 11, 16))
        px(r, g, i) ==
            LET pxR == ToByte(r.den[rIndices[i] + 1])
                pxG == ToByte(g.den[gIndices[i] + 1])
                pxB == CASE blueMode = ComputeNormal ->
                                computeNormal(r.pal[rIndices[i] + 1], g.pal[gIndices[i] + 1])
                         [] blueMode = Greyscale     -> pxR
                         [] blueMode = One           -> denormalize(FFromInt(1))
                         [] OTHER                    -> 0
            IN  RGBA(pxR, pxG, pxB, 1)
        img(r, g) == Image(Rect(0, 0, 4, 4), [i \in 1..16 |-> px(r, g, i)])
    IN  img(paletteOf(block[1], block[2], fma), paletteOf(block[9], block[10], fma))

----------------------------------------------------------------------------
(* The BC5 image                                                           *)

\* A BC5: its Data, its Rect and its BlueMode.  The capacity of Data is taken
\* to be its length, as make leaves it in SetFromRGBA.
BC5(data, rect, blueMode) == [Data |-> data, Rect |-> rect, BlueMode |-> blueMode]

\* new(BC5)
NewBC5 == BC5(<<>>, ZR, Zero)

\* int(float32(v)/4) for a coordinate v >= 0: float32 holds the coordinates
\* and the quotient exactly, and the conversion drops the fraction
Quarter(v) == v \div 4

\* returns array of 4x4 sub-images from img.  The block at (x, y) is a new
\* 4x4 image on which draw.Draw copies img.SubImage(image.Rect(x*4, y*4,
\* x*4+4, y*4+4)): SubImage clips that rectangle to img.Rect, and Draw copies
\* the clipped sub-image, from its Min, to the block's top left corner.
makeBlocks(img) ==
    LET bw == RectSize(img.Rect).X \div 4
        bh == RectSize(img.Rect).Y \div 4
        block(x, y) ==
            LET sub == Intersect(Rect(x * 4, y * 4, (x * 4) + 4, (y * 4) + 4), img.Rect)
                n   == RectSize(sub)
            IN  Image(Rect(0, 0, 4, 4),
                      [i \in 1..16 |->
                          IF (i - 1) % 4 < n.X /\ (i - 1) \div 4 < n.Y
                          THEN RGBAAt(img, sub.Min.X + ((i - 1) % 4),
                                           sub.Min.Y + ((i - 1) \div 4))
                          ELSE ZeroRGBA])
    IN  [k \in 1..(bw * bh) |-> block((k - 1) % bw, (k - 1) \div bw)]

\* the receiver as SetFromRGBA leaves it: the blocks of rgba compressed, one
\* after the other, as its Data, and the Rect of rgba as its Rect
setData(bv, rgba, fma) ==
    LET blocks == makeBlocks(rgba)
        n      == (RectSize(rgba.Rect).X \div 4) * (RectSize(rgba.Rect).Y \div 4)
        c      == Table([i \in 1..n |-> compressBlock(blocks[i], fma)])
        data   == Table([j \in 1..(n * 16) |->
                            c[((j - 1) \div 16) + 1][((j - 1) % 16) + 1]])
    IN  [bv EXCEPT !.Data = data, !.Rect = rgba.Rect]

\* Mutant of SetFromRGBAResult: the test of the multiple of 4 left out
SetFromRGBASquareOnly(bv, rgba, fma) ==
    IF RectSize(rgba.Rect).X # RectSize(rgba.Rect).Y
    THEN [err |-> "image must be square", b |-> bv]
    ELSE [err |-> "", b |-> setData(bv, rgba, fma)]

\* SetFromRGBA encodes RGBA data into this BC5 image: the error it returns
\* ("" for nil) and the receiver after the call
SetFromRGBAResult(bv, rgba, fma) ==
    IF RectSize(rgba.Rect).X # RectSize(rgba.Rect).Y
    THEN [err |-> "image must be square", b |-> bv]
    ELSE IF RectSize(rgba.Rect).X % 4 # 0
    THEN [err |-> "size must be a multiple of 4", b |-> bv]
    ELSE [err |-> "", b |-> setData(bv, rgba, fma)]

\* NewBC5FromRGBA returns a BC5 containing the compressed form of an RGBA
\* image: the error and the pointer (no element for nil)
NewBC5FromRGBAResult(rgba, fma) ==
    LET result(r) == IF r.err # "" THEN [err |-> r.err, img |-> <<>>]
                     ELSE [err |-> "", img |-> <<r.b>>]
    IN  result(SetFromRGBAResult(NewBC5, rgba, fma))

\* Decompress returns an RGBA image containing the decompressed contents of
\* b, or panics at blocks[blockIx] on an index that blocks does not have.
\* SetRGBA writes nothing at an (x, y) outside the Rect of the new image.
DecompressResult(bv, fma) ==
    LET n  == Len(bv.Data) \div 16
        sz == RectSize(bv.Rect)
        blocks == Table([i \in 1..n |->
                     Table(decompressBlock(SubSeq(bv.Data, ((i - 1) * 16) + 1, i * 16),
                                           bv.BlueMode, fma).pix)])
        blockIx(x, y) == ((Quarter(y) * sz.X) \div 4) + Quarter(x)
    IN  IF \E y \in 0..(sz.Y - 1), x \in 0..(sz.X - 1) : blockIx(x, y) >= n
        THEN [panic |-> TRUE, out |-> <<>>]
        ELSE [panic |-> FALSE,
              out |-> << Image(bv.Rect, Table(
                  [i \in 1..(sz.X * sz.Y) |->
                      LET x == bv.Rect.Min.X + ((i - 1) % sz.X)
                          y == bv.Rect.Min.Y + ((i - 1) \div sz.X)
                      IN  IF x < sz.X /\ y < sz.Y
                          THEN blocks[blockIx(x, y) + 1][((y % 4) * 4) + (x % 4) + 1]
                          ELSE ZeroRGBA])) >>]

\* At past its test of the bounds: the pixel of the block sliced from b.Data
\* at blockIx, or a panic at the slice b.Data[blockIx:blockIx+16]; read says
\* whether it came to read Data
atBlock(bv, x, y, fma, blockIx) ==
    IF blockIx + 16 > Len(bv.Data)
    THEN [panic |-> TRUE, px |-> ZeroRGBA, read |-> FALSE]
    ELSE [panic |-> FALSE,
          px |-> RGBAAt(decompressBlock(SubSeq(bv.Data, blockIx + 1, blockIx + 16),
                                        bv.BlueMode, fma), x % 4, y % 4),
          read |-> TRUE]

\* Mutant of AtResult: the width and the height themselves taken as in bounds
AtInclusiveBound(bv, x, y, fma) ==
    IF x < 0 \/ x > RectSize(bv.Rect).X \/ y < 0 \/ y > RectSize(bv.Rect).Y
    THEN [panic |-> FALSE, px |-> ZeroRGBA, read |-> FALSE]
    ELSE atBlock(bv, x, y, fma, (Quarter(y) * RectSize(bv.Rect).Y) + (Quarter(x) * 16))

\* At performs on-the-fly decompression of b and returns the RGBA color at
\* (x,y)
AtResult(bv, x, y, fma) ==
    IF x < 0 \/ x >= RectSize(bv.Rect).X \/ y < 0 \/ y >= RectSize(bv.Rect).Y
    THEN [panic |-> FALSE, px |-> ZeroRGBA, read |-> FALSE]
    ELSE atBlock(bv, x, y, fma, (Quarter(y) * RectSize(bv.Rect).Y) + (Quarter(x) * 16))

----------------------------------------------------------------------------
(* The container                                                           *)

\* binary.BigEndian.PutUint32 and Uint32, for values below 2^31
PutUint32(v) == << (v \div 2^24) % 256, (v \div 2^16) % 256, (v \div 2^8) % 256, v % 256 >>
Uint32(bs) == (((((bs[1] * 256) + bs[2]) * 256) + bs[3]) * 256) + bs[4]

\* the bytes of the string "BC5 "
Signature == << 66, 67, 53, 32 >>

\* converts string to uint32
strToDword(s) == Uint32(s)

\* An io.Writer with room for w.room more bytes: Write takes what fits, and
\* reports a short write with an error unless w.silent.  <<n, err, taken>>
Write(w, p) ==
    LET n == Min(Len(p), w.room)
    IN  << n, IF n < Len(p) /\ ~w.silent THEN "short write" ELSE "", SubSeq(p, 1, n) >>

\* Encode writes the contents of img to w, along with a 12 byte header: the
\* error it returns and the bytes w has taken
EncodeResult(img, w) ==
    LET headerBytes == PutUint32(strToDword(Signature))
                       \o PutUint32(RectSize(img.Rect).X)
                       \o PutUint32(RectSize(img.Rect).Y)
        h == Write(w, headerBytes)
        d == Write([w EXCEPT !.room = w.room - h[1]], img.Data)
    IN  IF h[2] # "" THEN [err |-> h[2], bytes |-> h[3]]
        ELSE IF h[1] # 12 THEN [err |-> "failed to write header", bytes |-> h[3]]
        ELSE IF d[2] # "" THEN [err |-> d[2], bytes |-> h[3] \o d[3]]
        ELSE IF d[1] # Len(img.Data)
             THEN [err |-> "failed to write image data", bytes |-> h[3] \o d[3]]
        ELSE [err |-> "", bytes |-> h[3] \o d[3]]

\* Mutant of DecodeResult: the data taken from the byte after its first
DecodeFrom13(readBytes) ==
    IF Len(readBytes) < 12
    THEN [err |-> "not enough data for BC5", img |-> <<>>]
    ELSE IF Uint32(SubSeq(readBytes, 1, 4)) # strToDword(Signature)
    THEN [err |-> "invalid file signature", img |-> <<>>]
    ELSE IF Len(readBytes) < 13
    THEN [err |-> "no image data found", img |-> <<>>]
    ELSE [err |-> "",
          img |-> << BC5(SubSeq(readBytes, 14, Len(readBytes)),
                         Rect(0, 0, Uint32(SubSeq(readBytes, 5, 8)),
                                    Uint32(SubSeq(readBytes, 9, 12))),
                         Zero) >>]

\* Decode reads BC5 encoded data from a reader into a new BC5 and returns a
\* pointer to it; readBytes is all that the reader holds
DecodeResult(readBytes) ==
    IF Len(readBytes) < 12
    THEN [err |-> "not enough data for BC5", img |-> <<>>]
    ELSE IF Uint32(SubSeq(readBytes, 1, 4)) # strToDword(Signature)
    THEN [err |-> "invalid file signature", img |-> <<>>]
    ELSE IF Len(readBytes) < 13
    THEN [err |-> "no image data found", img |-> <<>>]
    ELSE [err |-> "",
          img |-> << BC5(SubSeq(readBytes, 13, Len(readBytes)),
                         Rect(0, 0, Uint32(SubSeq(readBytes, 5, 8)),
                                    Uint32(SubSeq(readBytes, 9, 12))),
                         Zero) >>]

----------------------------------------------------------------------------
(* The inputs                                                              *)

\* the largest width and height of an image
MaxSide == 8
\* the largest offset of an input image's Rect.Min from (0,0)
MaxOrigin == 1
\* the number of pixel positions that the blocks of the block codec vary
NumPos == 4

NumLevels == Cardinality(Levels)
\* the levels in increasing order, LevelAt(0) the smallest
LevelAt(i) == CHOOSE v \in Levels : Cardinality({u \in Levels : u < v}) = i

\* The pixel contents of the input images: the solid colour of level i in
\* red and the next level in green (100 and 200, and 255 and 0), and a ramp
\* whose levels differ from pixel to pixel within a tile and from tile to
\* tile.  Blue and alpha are there to be discarded.
Contents == {<<"solid", 1>>, <<"solid", 3>>, <<"ramp", 0>>}

ColourAt(c, x, y) ==
    LET i == IF c[1] = "solid" THEN c[2]
             ELSE ((x % 4) + (3 * (y % 4)) + (x \div 4) + (2 * (y \div 4))) % NumLevels
    IN  RGBA(LevelAt(i), LevelAt((i + 1) % NumLevels), 128, 255)

\* the image of w by h pixels with its top left corner at (o, o)
PatternImage(o, w, h, c) ==
    Image(Rect(o, o, o + w, o + h),
          Table([i \in 1..(w * h) |-> ColourAt(c, (i - 1) % w, (i - 1) \div w)]))

\* widths and heights around the multiples of 4
Sides == {0, 1, 4, 5, MaxSide}

\* The images given to SetFromRGBA and NewBC5FromRGBA: every content and
\* origin for the squares of a side that is a multiple of 4, and one image of
\* every width and height in Sides
Inputs ==
    {PatternImage(o, 4 * k, 4 * k, c) :
        o \in 0..MaxOrigin, k \in 0..(MaxSide \div 4), c \in Contents}
    \cup {PatternImage(0, w, h, <<"solid", 1>>) : w \in Sides, h \in Sides}

\* the coordinates given to At: around the edges of the tiles and of the image
Coords == {-1, 0, 3, 4, MaxSide - 1, MaxSide}

\* A block written by hand: reference bytes in either order and index bytes
\* of no particular pattern
HandBlock(i) ==
    << LevelAt(i % NumLevels), LevelAt((i + 1) % NumLevels) >>
    \o [j \in 1..6 |-> ((41 * i) + (59 * j)) % 256]
    \o << LevelAt((i + 3) % NumLevels), LevelAt((i + 2) % NumLevels) >>
    \o [j \in 1..6 |-> ((97 * i) + (31 * j) + 5) % 256]

\* the bytes of the hand-written blocks 0..k-1 and of the first extra bytes
\* of the next
HandData(k, extra) ==
    [j \in 1..((16 * k) + extra) |-> HandBlock((j - 1) \div 16)[((j - 1) % 16) + 1]]

\* The BC5 values a caller makes itself: new(BC5), one with the blocks its
\* Rect calls for, for every width and height that are positive multiples of
\* 4 and every blue mode, and some whose Data and Rect do not fit
Literals ==
    {NewBC5}
    \cup {BC5(HandData(i * j, 0), Rect(0, 0, 4 * i, 4 * j), m) :
             i \in 1..(MaxSide \div 4), j \in 1..(MaxSide \div 4), m \in BlueMode}
    \cup {BC5(HandData(1, 0), Rect(0, 0, MaxSide, MaxSide), Zero),
          BC5(HandData(1, 3), Rect(0, 0, 4, 4), Zero),
          BC5(HandData(1, 0), Rect(0, 0, 5, 3), Zero)}

\* the writers given to Encode: with room for half a header, for a header
\* and half a block, and for everything
Writers ==
    {[room |-> r, silent |-> q] : r \in {6, 12 + 8, 12 + (16 * MaxSide * MaxSide)},
                                  q \in BOOLEAN}

\* The streams given to Decode that no Encode wrote: prefixes of the stream
\* of a 4x4 image of one block, that stream with one of its first four bytes
\* changed, and streams of one block under other widths and heights
OneBlockStream(w, h) == Signature \o PutUint32(w) \o PutUint32(h) \o HandBlock(0)

Streams ==
    {SubSeq(OneBlockStream(4, 4), 1, n) : n \in {0, 11, 12, 13, 27, 28}}
    \cup {[OneBlockStream(4, 4) EXCEPT ![i] = (@ + 1) % 128] : i \in 1..4}
    \cup {OneBlockStream(w, h) : w \in {0, 4, 5, MaxSide}, h \in {0, 3, 4}}

\* the blocks given to the block codec: level a everywhere but for level c1
\* at pixel p and level c2 three pixels on, in red, and the same pattern
\* eight pixels on in green
BlockOf(a, c1, c2, p) ==
    LET v(k) == IF k % 16 = p THEN c1 ELSE IF k % 16 = (p + 3) % 16 THEN c2 ELSE a
    IN  Image(Rect(0, 0, 4, 4), Table([i \in 1..16 |-> RGBA(v(i - 1), v(i + 7), 128, 255)]))

Blocks ==
    {BlockOf(a, c1, c2, (7 * j) % 16) :
        a \in Levels, c1 \in Levels, c2 \in Levels, j \in 0..(NumPos - 1)}

\* the sequences of sixteen 3-bit indices given to the packing: ramps of
\* every start and step, and a single value at a single place
IndexSeqs ==
    {[i \in 1..16 |-> (s0 + ((i - 1) * t)) % 8] : s0 \in 0..7, t \in 0..7}
    \cup {[i \in 1..16 |-> IF i = q THEN d ELSE 0] : q \in 1..16, d \in 1..7}

----------------------------------------------------------------------------
(* The state and the calls                                                 *)

VARIABLES
    build,    \* what the build does with a sum of two products
    bc5,      \* the caller's BC5
    source,   \* the image that bc5 was last compressed from, if any
    ret       \* the call just made, with its arguments and results

vars == <<build, bc5, source, ret>>

\* no call made: op names the call, err is "" for a nil error, and a pointer
\* or a value not returned is the empty sequence
NoRet ==
    [op |-> "", err |-> "", panic |-> FALSE, arg |-> <<>>, x |-> 0, y |-> 0,
     px |-> ZeroRGBA, read |-> FALSE, img |-> <<>>, out |-> <<>>, bytes |-> <<>>,
     mode |-> Zero, ix |-> <<>>, ixs |-> <<>>]

Idle == ret.op = ""

Init ==
    /\ build \in FusedMulAdd
    /\ bc5 \in Literals
    /\ source = <<>>
    /\ ret = NoRet

SetFromRGBA(in) ==
    /\ Idle
    /\ \E r \in {SetFromRGBAResult(bc5, in, build)} :
           /\ bc5' = r.b
           /\ source' = IF r.err = "" THEN <<in>> ELSE source
           /\ ret' = [NoRet EXCEPT !.op = "SetFromRGBA", !.arg = <<in>>, !.err = r.err]
    /\ UNCHANGED build

NewBC5FromRGBA(in) ==
    /\ Idle
    /\ \E r \in {NewBC5FromRGBAResult(in, build)} :
           ret' = [NoRet EXCEPT !.op = "NewBC5FromRGBA", !.arg = <<in>>,
                                !.err = r.err, !.img = r.img]
    /\ UNCHANGED <<build, bc5, source>>

Decompress ==
    /\ Idle
    /\ \E r \in {DecompressResult(bc5, build)} :
           ret' = [NoRet EXCEPT !.op = "Decompress", !.panic = r.panic, !.out = r.out]
    /\ UNCHANGED <<build, bc5, source>>

At(x, y) ==
    /\ Idle
    /\ \E r \in {AtResult(bc5, x, y, build)} :
           ret' = [NoRet EXCEPT !.op = "At", !.x = x, !.y = y, !.panic = r.panic,
                                !.px = r.px, !.read = r.read]
    /\ UNCHANGED <<build, bc5, source>>

Encode(w) ==
    /\ Idle
    /\ \E r \in {EncodeResult(bc5, w)} :
           ret' = [NoRet EXCEPT !.op = "Encode", !.arg = <<w>>, !.err = r.err,
                                !.bytes = r.bytes]
    /\ UNCHANGED <<build, bc5, source>>

\* Decode of a stream of the caller's, or of what the Encode just made wrote
\* (arg is then that Encode's writer)
Decode ==
    /\ \/ /\ Idle
          /\ \E s \in Streams : \E r \in {DecodeResult(s)} :
                ret' = [NoRet EXCEPT !.op = "Decode", !.bytes = s,
                                     !.err = r.err, !.img = r.img]
       \/ /\ ret.op = "Encode"
          /\ \E r \in {DecodeResult(ret.bytes)} :
                ret' = [NoRet EXCEPT !.op = "Decode", !.arg = ret.arg,
                                     !.bytes = ret.bytes, !.err = r.err, !.img = r.img]
    /\ UNCHANGED <<build, bc5, source>>

\* the caller has taken the results of the call
Return ==
    /\ ~Idle
    /\ ret' = NoRet
    /\ UNCHANGED <<build, bc5, source>>

Next ==
    \/ \E in \in Inputs : SetFromRGBA(in)
    \/ \E in \in Inputs : NewBC5FromRGBA(in)
    \/ Decompress
    \/ \E x \in Coords, y \in Coords : At(x, y)
    \/ \E w \in Writers : Encode(w)
    \/ Decode
    \/ Return

Spec == Init /\ [][Next]_vars

----------------------------------------------------------------------------
(* The block codec on its own                                              *)

InitBlock ==
    /\ build \in FusedMulAdd
    /\ bc5 = NewBC5
    /\ source = <<>>
    /\ \E blk \in Blocks : ret = [NoRet EXCEPT !.op = "block", !.arg = <<blk>>]

CompressBlock ==
    /\ ret.op = "block"
    /\ ret' = [ret EXCEPT !.op = "compressBlock",
                          !.bytes = compressBlock(ret.arg[1], build)]
    /\ UNCHANGED <<build, bc5, source>>

DecompressBlock(blueMode) ==
    /\ ret.op = "compressBlock"
    /\ ret' = [ret EXCEPT !.op = "decompressBlock", !.mode = blueMode,
                          !.out = << Image(Rect(0, 0, 4, 4),
                              Table(decompressBlock(ret.bytes, blueMode, build).pix)) >>]
    /\ UNCHANGED <<build, bc5, source>>

NextBlock ==
    \/ CompressBlock
    \/ \E blueMode \in BlueMode : DecompressBlock(blueMode)

SpecBlock == InitBlock /\ [][NextBlock]_vars

----------------------------------------------------------------------------
(* The packing of the indices on its own                                   *)

InitPack ==
    /\ build \in FusedMulAdd
    /\ bc5 = NewBC5
    /\ source = <<>>
    /\ \E v \in IndexSeqs : ret = [NoRet EXCEPT !.op = "indices", !.ix = v]

PackIndices ==
    /\ ret.op = "indices"
    /\ ret' = [ret EXCEPT !.op = "packIndices", !.bytes = packIndices(ret.ix)]
    /\ UNCHANGED <<build, bc5, source>>

GetIndices ==
    /\ ret.op = "packIndices"
    /\ ret' = [ret EXCEPT !.op = "getIndices", !.ixs = getIndices(ret.bytes)]
    /\ UNCHANGED <<build, bc5, source>>

NextPack == PackIndices \/ GetIndices

SpecPack == InitPack /\ [][NextPack]_vars

----------------------------------------------------------------------------
(* The claims                                                              *)

\* the width (and height) of a square image
Side(img) == RectSize(img.Rect).X

\* every pixel of img has the red and the green of its first
IsSolid(img) ==
    \A i \in DOMAIN img.pix : img.pix[i].R = img.pix[1].R /\ img.pix[i].G = img.pix[1].G

\* the smallest and the largest of a set of bytes
Least(S) == CHOOSE v \in S : \A u \in S : v <= u
Greatest(S) == CHOOSE v \in S : \A u \in S : v >= u

\* (x, y) is within the width and the height of bv
InBounds(bv, x, y) ==
    x >= 0 /\ x < RectSize(bv.Rect).X /\ y >= 0 /\ y < RectSize(bv.Rect).Y

\* width and height are multiples of 4 and Data holds the blocks they call for
HoldsItsBlocks(bv) ==
    /\ RectSize(bv.Rect).X % 4 = 0
    /\ RectSize(bv.Rect).Y % 4 = 0
    /\ Len(bv.Data) = 16 * (RectSize(bv.Rect).X \div 4) * (RectSize(bv.Rect).Y \div 4)

\* block k (from 0) of Data
BlockAt(data, k) == SubSeq(data, (16 * k) + 1, (16 * k) + 16)

\* C1: after decompressBlock(compressBlock(B)), every pixel that holds B's
\* least or greatest red has its red again, and every pixel that holds B's
\* least or greatest green has its green again, in every blue mode.
C1_EndpointsReproduced ==
    ret.op = "decompressBlock" =>
        \A k \in 1..16 :
            /\ ret.arg[1].pix[k].R \in {minMax(ret.arg[1]).minR, minMax(ret.arg[1]).maxR}
                   => ret.out[1].pix[k].R = ret.arg[1].pix[k].R
            /\ ret.arg[1].pix[k].G \in {minMax(ret.arg[1]).minG, minMax(ret.arg[1]).maxG}
                   => ret.out[1].pix[k].G = ret.arg[1].pix[k].G

\* C2: getIndices of the six bytes that compressBlock packs sixteen 3-bit
\* values into returns those values in their order.
C2_PackingRoundTrip ==
    ret.op = "getIndices" => \A i \in 1..16 : ret.ixs[i] = ret.ix[i]

\* C3: a solid-colour square image of a side that is a positive multiple of
\* 4 is compressed to identical blocks, of reference bytes (r, r) and (g, g)
\* and index bits all zero, and Decompress gives r and g back at every pixel.
C3_SolidColour ==
    (source # <<>> /\ Side(source[1]) > 0 /\ IsSolid(source[1])) =>
        /\ Len(bc5.Data) = 16 * (Side(source[1]) \div 4) * (Side(source[1]) \div 4)
        /\ \A j \in 1..Len(bc5.Data) :
               bc5.Data[j] = IF j % 16 \in {1, 2} THEN source[1].pix[1].R
                             ELSE IF j % 16 \in {9, 10} THEN source[1].pix[1].G
                             ELSE 0
        /\ ret.op = "Decompress" =>
               /\ ~ret.panic
               /\ \A i \in DOMAIN ret.out[1].pix :
                      /\ ret.out[1].pix[i].R = source[1].pix[1].R
                      /\ ret.out[1].pix[i].G = source[1].pix[1].G

\* C4: SetFromRGBA and NewBC5FromRGBA return an error exactly when the width
\* of the image differs from its height or is not divisible by 4.
C4_ErrorIffBadSize ==
    ret.op \in {"SetFromRGBA", "NewBC5FromRGBA"} =>
        ((ret.err # "") <=> (RectSize(ret.arg[1].Rect).X # RectSize(ret.arg[1].Rect).Y
                             \/ RectSize(ret.arg[1].Rect).X % 4 # 0))

\* a square image of a side that 4 does not divide has been refused
C4_Witness ==
    /\ ret.op = "SetFromRGBA"
    /\ ret.err # ""
    /\ RectSize(ret.arg[1].Rect).X = RectSize(ret.arg[1].Rect).Y
    /\ RectSize(ret.arg[1].Rect).X > 4

\* C5: At outside the width or the height returns the zero pixel, without a
\* panic and without reading Data, whatever Data, Rect and blue mode are.
C5_OutOfBoundsIsZero ==
    (ret.op = "At" /\ ~InBounds(bc5, ret.x, ret.y)) =>
        (ret.px = ZeroRGBA /\ ~ret.panic /\ ~ret.read)

\* At has been asked for the pixel at x = width of an image that has pixels
C5_Witness ==
    /\ ret.op = "At"
    /\ ret.x = RectSize(bc5.Rect).X
    /\ ret.x > 0
    /\ ret.y = 0
    /\ Len(bc5.Data) >= 16
    /\ ret.px = ZeroRGBA

\* Decode has read what an Encode without error wrote of bc5, and returned
\* its width, its height and its Data
RoundTrip ==
    (ret.op = "Decode" /\ ret.arg # <<>> /\ EncodeResult(bc5, ret.arg[1]).err = "") =>
        /\ ret.err = ""
        /\ RectSize(ret.img[1].Rect) = RectSize(bc5.Rect)
        /\ ret.img[1].Data = bc5.Data

\* C6, as stated: Encode and then Decode of what it wrote succeeds and
\* returns the same width, height and Data, for every image, one of zero
\* blocks included.
C6_RoundTripAny == RoundTrip

\* C6, amended: Encode and then Decode of what it wrote succeeds and returns
\* the same width, height and Data, for every image whose Data is not empty.
C6_RoundTripNonEmpty == Len(bc5.Data) >= 1 => RoundTrip

\* an image of two blocks or more has come back from Encode and Decode
C6_Witness ==
    /\ ret.op = "Decode"
    /\ ret.arg # <<>>
    /\ ret.err = ""
    /\ Len(bc5.Data) >= 32
    /\ ret.img[1].Data = bc5.Data

\* C7: for a BC5 of a width and a height that are positive multiples of 4,
\* which holds the blocks they call for, At within the bounds does not panic
\* and returns the pixel that Decompress has at (x, y).
C7_AtAgreesWithDecompress ==
    (/\ ret.op = "At"
     /\ InBounds(bc5, ret.x, ret.y)
     /\ HoldsItsBlocks(bc5)) =>
        /\ ~ret.panic
        /\ ~DecompressResult(bc5, build).panic
        /\ ret.px = RGBAAt(DecompressResult(bc5, build).out[1], ret.x, ret.y)

\* C8: after SetFromRGBA of a square image of side W, block by * (W/4) + bx
\* of Data is compressBlock of the tile whose top left pixel is the pixel
\* (4*bx, 4*by) of the image, and Decompress has at every pixel (x, y) the
\* pixel (x%4, y%4) of the decompression of block (y/4) * (W/4) + (x/4);
\* pixels are counted from the top left corner of the image.
C8_TilesInRowMajorOrder ==
    (source # <<>> /\ Side(source[1]) > 0) =>
        /\ \A by \in 0..((Side(source[1]) \div 4) - 1), bx \in 0..((Side(source[1]) \div 4) - 1) :
               BlockAt(bc5.Data, (by * (Side(source[1]) \div 4)) + bx)
               = compressBlock(
                     Image(Rect(0, 0, 4, 4),
                           [i \in 1..16 |->
                               RGBAAt(source[1],
                                      source[1].Rect.Min.X + (4 * bx) + ((i - 1) % 4),
                                      source[1].Rect.Min.Y + (4 * by) + ((i - 1) \div 4))]),
                     build)
        /\ ret.op = "Decompress" =>
               /\ ~ret.panic
               /\ \A y \in 0..(Side(source[1]) - 1), x \in 0..(Side(source[1]) - 1) :
                      RGBAAt(ret.out[1], bc5.Rect.Min.X + x, bc5.Rect.Min.Y + y)
                      = RGBAAt(decompressBlock(
                                   BlockAt(bc5.Data,
                                           ((y \div 4) * (Side(source[1]) \div 4)) + (x \div 4)),
                                   bc5.BlueMode, build),
                               x % 4, y % 4)

\* C9: a BC5 that SetFromRGBA, NewBC5FromRGBA or Decode has returned without
\* error has a width and a height that are multiples of 4 and a Data of 16
\* bytes for each of its (width/4) * (height/4) blocks, and Decompress of it
\* does not panic.
C9_HoldsItsBlocks ==
    /\ (ret.op = "SetFromRGBA" /\ ret.err = "") =>
           (HoldsItsBlocks(bc5) /\ ~DecompressResult(bc5, build).panic)
    /\ (ret.op \in {"NewBC5FromRGBA", "Decode"} /\ ret.err = "") =>
           (HoldsItsBlocks(ret.img[1]) /\ ~DecompressResult(ret.img[1], build).panic)

\* C10: compressBlock gives generatePalette the least and the greatest value
\* of the channel as c0 and c1, so that c0 <= c1 and the c0 > c1 branch is
\* not taken, and the block it returns has byte 0 <= byte 1 and
\* byte 8 <= byte 9.
C10_PaletteOfMinAndMax ==
    ret.op = "compressBlock" =>
        /\ minMax(ret.arg[1]).minR = Least({ret.arg[1].pix[k].R : k \in 1..16})
        /\ minMax(ret.arg[1]).maxR = Greatest({ret.arg[1].pix[k].R : k \in 1..16})
        /\ minMax(ret.arg[1]).minG = Least({ret.arg[1].pix[k].G : k \in 1..16})
        /\ minMax(ret.arg[1]).maxG = Greatest({ret.arg[1].pix[k].G : k \in 1..16})
        /\ ~FLess(normalize(minMax(ret.arg[1]).maxR), normalize(minMax(ret.arg[1]).minR))
        /\ ~FLess(normalize(minMax(ret.arg[1]).maxG), normalize(minMax(ret.arg[1]).minG))
        /\ ret.bytes[1] <= ret.bytes[2]
        /\ ret.bytes[9] <= ret.bytes[10]

\* a block whose red and green both vary has been compressed
C10_Witness ==
    /\ ret.op = "compressBlock"
    /\ ret.bytes[1] < ret.bytes[2]
    /\ ret.bytes[9] < ret.bytes[10]

====
